---- MODULE Spec2Model ----
(***************************************************************************)
(* The OpenAI -> KoboldAI horde proxy of src/main.go.                      *)
(*                                                                         *)
(* Every inbound HTTP request runs in a goroutine of its own (net/http).   *)
(* A request r goes through the handler (header, JSON decode, conversion), *)
(* the submit POST of callKoboldAPI, the sleep/GET loop of pollKoboldAPI   *)
(* and the tail of the handler that converts the final status and writes   *)
(* the response.  The horde (downstream) is the environment: what it       *)
(* answers to a POST or a GET is an input of the step that issues it.      *)
(*                                                                         *)
(* Strings whose content matters (roles, contents, prompts, keys,          *)
(* generation texts) are sequences of one-character strings, so that       *)
(* concatenation, prefix removal and len() are computed, not assumed.      *)
(* An optional value is a sequence of length 0 or 1.                       *)
(*                                                                         *)
(* Left out, since nothing reads them back: the log lines written to       *)
(* stdout/stderr, the response's id (uuid) and created (clock) fields, the *)
(* request fields the conversions never read (temperature, top_p, n,       *)
(* stream, logprobs, stop) and the status fields the code never reads      *)
(* (finished, processing, ... , and a generation's fields but its text).   *)
(* json.Marshal of a koboldAIRequest and http.NewRequest of the constant   *)
(* URL cannot fail, so their error returns (lines 220-225, 228-233) have   *)
(* no step here.                                                           *)
(***************************************************************************)
EXTENDS Integers, Sequences, FiniteSets, TLC

\* ------------------------------------------------------------------ bounds
NReq == 2
MaxPolls == 2
MaxMsgs == 2
MaxGens == 2

\* --------------------------------------------------------- program constants
StatusOK == 200
StatusBadRequest == 400
StatusInternalServerError == 500
ContextLength == 1024
ChatMaxLength == 100

defaultAPIKey == <<"0", "0", "0", "0", "0", "0", "0", "0", "0", "0">>
BearerPrefix == <<"B", "e", "a", "r", "e", "r", " ">>
AssistantRole == <<"a", "s", "s", "i", "s", "t", "a", "n", "t">>

Reqs == 1..NReq
\* The request of the one-request specification.
Single == {1}

VARIABLES
    pc,        \* r -> "absent" | "submit" | "sleep" | "get" | "done" | "panicked"
    inbound,   \* r -> the HTTP request as received (optional)
    apiKey,    \* r -> the handler's apiKey (optional)
    koboldReq, \* r -> the handler's koboldReq (optional)
    post,      \* r -> the submit POSTs r issued, each with the horde's answer
    handle,    \* r -> jsonResponse.ID handed to pollKoboldAPI (optional)
    sleeps,    \* r -> number of time.Sleep calls of r's poll loop
    gets,      \* r -> the status GETs r issued: target id and kind of answer
    last,      \* r -> the answer to r's latest status GET (optional)
    result,    \* r -> what callKoboldAPI returned to the handler (optional)
    response,  \* r -> the HTTP response written to r's caller (optional)
    bodies,    \* r -> the horde's response bodies r has opened and closed
    jobs       \* the horde's jobs, in order of creation: owner, status served

vars == <<pc, inbound, apiKey, koboldReq, post, handle, sleeps, gets, last,
          result, response, bodies, jobs>>

\* ------------------------------------------------------------ input alphabets
SeqUpTo(S, n) == UNION {[1..k -> S] : k \in 0..n}

\* Messages: an empty content, a content that itself holds a newline, and a
\* second role.
ChatMessages ==
    {[Role |-> <<"u">>, Content |-> <<>>],
     [Role |-> <<"u">>, Content |-> <<"h", "\n">>],
     [Role |-> <<"b", "o", "t">>, Content |-> <<"h", "\n">>]}
ModelNames == {<<"m">>}
Prompts == {<<>>, <<"H", "i">>}
MaxTokensValues == {0, 50}
UserKey == <<"k", "1">>
\* Authorization header values: absent, "Bearer k1", "k1", "Bearer " alone.
AuthHeaders == {<<>>, BearerPrefix \o UserKey, UserKey, BearerPrefix}
DecodeErrors == {"unexpected EOF", "invalid character"}

\* What json.Decoder.Decode leaves of a request body: an error, or the value.
ZeroChatRequest == [Model |-> <<>>, Messages |-> <<>>]
ZeroCompletionRequest == [Model |-> <<>>, Prompt |-> <<>>, MaxTokens |-> 0]
ChatBodies ==
    {[ok |-> TRUE, err |-> "", val |-> [Model |-> m, Messages |-> ms]] :
        m \in ModelNames, ms \in SeqUpTo(ChatMessages, MaxMsgs)}
    \cup {[ok |-> FALSE, err |-> e, val |-> ZeroChatRequest] : e \in DecodeErrors}
CompletionBodies ==
    {[ok |-> TRUE, err |-> "",
      val |-> [Model |-> m, Prompt |-> p, MaxTokens |-> n]] :
        m \in ModelNames \cup {<<"g", "p", "t">>}, p \in Prompts,
        n \in MaxTokensValues}
    \cup {[ok |-> FALSE, err |-> e, val |-> ZeroCompletionRequest] :
             e \in DecodeErrors}

ChatPath == "/v1/chat/completions"
CompletionPath == "/v1/completions"
Inbound ==
    {[endpoint |-> ChatPath, auth |-> a, body |-> b] :
        a \in AuthHeaders, b \in ChatBodies}
    \cup {[endpoint |-> CompletionPath, auth |-> a, body |-> b] :
             a \in AuthHeaders, b \in CompletionBodies}

\* Overlapping requests: one body per endpoint, with the same prompt text on
\* both, and one body that does not decode.
SamePrompt == <<"u", ":", " ", "\n">>
InboundConc ==
    {[endpoint |-> ChatPath, auth |-> <<>>,
      body |-> [ok |-> TRUE, err |-> "",
                val |-> [Model |-> <<"m">>,
                         Messages |-> <<[Role |-> <<"u">>, Content |-> <<>>]>>]]],
     [endpoint |-> CompletionPath, auth |-> <<>>,
      body |-> [ok |-> TRUE, err |-> "",
                val |-> [Model |-> <<"m">>, Prompt |-> SamePrompt,
                         MaxTokens |-> 50]]],
     [endpoint |-> ChatPath, auth |-> <<>>,
      body |-> [ok |-> FALSE, err |-> "unexpected EOF", val |-> ZeroChatRequest]]}

\* The horde's answers to the submit POST: no answer (transport failure), or
\* an HTTP status with a body that is not JSON ("malformed"), is JSON without
\* an id ("noid", such as {"message": "..."}) or names the job just created.
SubmitReplies ==
    {[kind |-> "transport", code |-> 0, body |-> "", err |-> "post: connection refused"]}
    \cup {[kind |-> "http", code |-> c, body |-> "malformed",
           err |-> "post: invalid character"] : c \in {202, 401}}
    \cup {[kind |-> "http", code |-> c, body |-> "noid", err |-> ""] :
             c \in {202, 401}}
    \cup {[kind |-> "http", code |-> 202, body |-> "job", err |-> ""]}
SubmitRepliesConc ==
    {x \in SubmitReplies : x.kind = "transport" \/ x.body = "job"}

\* The horde's answers to a status GET.
GenTexts == {<<"W">>, <<"h", "i">>}
Generations == {[Text |-> t] : t \in GenTexts}
ZeroStatus == [Done |-> FALSE, Faulted |-> FALSE, Generations |-> <<>>]
Statuses ==
    {[Done |-> TRUE, Faulted |-> FALSE, Generations |-> g] :
        g \in SeqUpTo(Generations, MaxGens)}
    \cup {[Done |-> d, Faulted |-> TRUE, Generations |-> g] :
             d \in BOOLEAN, g \in SeqUpTo(Generations, 1)}
    \cup {[Done |-> FALSE, Faulted |-> FALSE, Generations |-> g] :
             g \in SeqUpTo(Generations, 1)}
PollReplies ==
    {[kind |-> "transport", ok |-> FALSE, err |-> "get: connection reset",
      status |-> ZeroStatus],
     [kind |-> "http", ok |-> FALSE, err |-> "get: unexpected EOF",
      status |-> ZeroStatus]}
    \cup {[kind |-> "http", ok |-> TRUE, err |-> "", status |-> st] :
             st \in Statuses}
PollRepliesConc ==
    {x \in PollReplies :
        \/ x.kind = "transport"
        \/ /\ x.ok
           /\ ~x.status.Faulted
           /\ Len(x.status.Generations) = (IF x.status.Done THEN 1 ELSE 0)}

\* ------------------------------------------------------------- schema mapper
\* strings.TrimPrefix
TrimPrefix(s, prefix) ==
    IF Len(s) >= Len(prefix) /\ SubSeq(s, 1, Len(prefix)) = prefix
    THEN SubSeq(s, Len(prefix) + 1, Len(s))
    ELSE s

\* Fault variant: the header value forwarded with its prefix.
ExtractKeyUntrimmed(auth) == IF auth = <<>> THEN defaultAPIKey ELSE auth

\* Lines 130-135 and 161-166.
ExtractKey(auth) ==
    IF auth = <<>> THEN defaultAPIKey ELSE TrimPrefix(auth, BearerPrefix)

\* Fault variant: the line without its newline.
MessageLineNoNewline(message) ==
    message.Role \o <<":", " ">> \o message.Content

\* The text one iteration of the loop at line 191 appends to the prompt.
MessageLine(message) ==
    message.Role \o <<":", " ">> \o message.Content \o <<"\n">>

\* The loop of lines 189-192: prompt += ... for each message, in order.
RECURSIVE PromptLoop(_, _, _)
PromptLoop(messages, i, prompt) ==
    IF i > Len(messages)
    THEN prompt
    ELSE PromptLoop(messages, i + 1, prompt \o MessageLine(messages[i]))

convertOpenAIChatRequestToKobold(chatReq) ==
    [Prompt |-> PromptLoop(chatReq.Messages, 1, <<>>),
     Models |-> <<chatReq.Model>>,
     TrustedWorkers |-> FALSE,
     Params |-> [MaxContextLength |-> ContextLength,
                 MaxLength |-> ChatMaxLength]]

\* Fault variant: the chat conversion's fixed output length.
convertCompletionFixedLength(completionReq) ==
    [Prompt |-> completionReq.Prompt,
     Models |-> <<completionReq.Model>>,
     TrustedWorkers |-> FALSE,
     Params |-> [MaxContextLength |-> ContextLength,
                 MaxLength |-> ChatMaxLength]]

convertOpenAICompletionRequestToKobold(completionReq) ==
    [Prompt |-> completionReq.Prompt,
     Models |-> <<completionReq.Model>>,
     TrustedWorkers |-> FALSE,
     Params |-> [MaxContextLength |-> ContextLength,
                 MaxLength |-> completionReq.MaxTokens]]

\* Generations[0] at lines 301 and 328: an index out of range panics.
IndexPanics(koboldResp) == Len(koboldResp.Generations) = 0

\* Fault variant: the text of the last generation instead of the first.
convertChatLastGeneration(koboldResp) ==
    LET responseText ==
            koboldResp.Generations[Len(koboldResp.Generations)].Text
    IN  [Object |-> "chat.completion",
         Choices |-> <<[Index |-> 0,
                        Message |-> [Role |-> AssistantRole,
                                     Content |-> responseText],
                        FinishReason |-> "stop"]>>,
         Usage |-> [PromptTokens |-> Len(koboldResp.Generations[1].Text),
                    CompletionTokens |-> Len(koboldResp.Generations[1].Text),
                    TotalTokens |-> 2 * Len(koboldResp.Generations[1].Text)]]

\* Fault variant: the total counting the text once.
convertChatTotalOnce(koboldResp) ==
    LET responseText == koboldResp.Generations[1].Text
    IN  [Object |-> "chat.completion",
         Choices |-> <<[Index |-> 0,
                        Message |-> [Role |-> AssistantRole,
                                     Content |-> responseText],
                        FinishReason |-> "stop"]>>,
         Usage |-> [PromptTokens |-> Len(responseText),
                    CompletionTokens |-> Len(responseText),
                    TotalTokens |-> Len(responseText)]]

convertKoboldResponseToOpenAIChatResponse(koboldResp) ==
    LET responseText == koboldResp.Generations[1].Text
        assistantMessage == [Role |-> AssistantRole, Content |-> responseText]
    IN  [Object |-> "chat.completion",
         Choices |-> <<[Index |-> 0,
                        Message |-> assistantMessage,
                        FinishReason |-> "stop"]>>,
         Usage |-> [PromptTokens |-> Len(koboldResp.Generations[1].Text),
                    CompletionTokens |-> Len(responseText),
                    TotalTokens |-> Len(koboldResp.Generations[1].Text)
                                    + Len(responseText)]]

\* Fault variant: the usage counted as the chat conversion counts it.
convertCompletionCountingUsage(koboldResp) ==
    LET responseText == koboldResp.Generations[1].Text
    IN  [Object |-> "text.completion",
         Choices |-> <<[Text |-> responseText,
                        Index |-> 0,
                        Logprobs |-> "nil",
                        FinishReason |-> "stop"]>>,
         Model |-> "davinci-codex",
         Usage |-> [PromptTokens |-> Len(responseText),
                    CompletionTokens |-> Len(responseText),
                    TotalTokens |-> 2 * Len(responseText)]]

convertKoboldResponseToOpenAICompletionResponse(koboldResp) ==
    LET responseText == koboldResp.Generations[1].Text
    IN  [Object |-> "text.completion",
         Choices |-> <<[Text |-> responseText,
                        Index |-> 0,
                        Logprobs |-> "nil",
                        FinishReason |-> "stop"]>>,
         Model |-> "davinci-codex",
         Usage |-> [PromptTokens |-> 0,
                    CompletionTokens |-> 0,
                    TotalTokens |-> 0]]

\* The generated text a response body carries, whichever its shape.
ChoiceText(body) ==
    IF body.Object = "chat.completion"
    THEN body.Choices[1].Message.Content
    ELSE body.Choices[1].Text

\* ------------------------------------------------------------------ handlers
Opt(x) == <<x>>
None == <<>>

\* http.Error(w, err.Error(), code)
HttpError(err, code) == [code |-> code, text |-> err, entity |-> None]

\* json.NewEncoder(w).Encode(entity), with the implicit status 200.
HttpOK(entity) == [code |-> StatusOK, text |-> "", entity |-> Opt(entity)]

\* Fault variant: the decode error dropped.
DecodeErrorIgnored(body) == None

\* err of json.NewDecoder(r.Body).Decode(&req), lines 138 and 169.
DecodeError(body) == IF body.ok THEN None ELSE Opt(body.err)

\* The response bodies of the horde a request holds: the submit answer's
\* ("none", "open" or "closed") and how many poll answers' it has opened and
\* closed.
NoBodies == [submit |-> "none", pollOpened |-> 0, pollClosed |-> 0]

\* resp of a successful client.Do, with its close deferred (line 247).
OpenSubmitBody(b) == [b EXCEPT !.submit = "open"]

\* resp of a successful http.Get, with its close deferred (line 282).
OpenPollBody(b) == [b EXCEPT !.pollOpened = @ + 1]

\* Fault variant: one deferred close, of the latest answer only.
ReturnFromPollClosingLatest(b) ==
    [b EXCEPT !.pollClosed = IF b.pollOpened > @ THEN @ + 1 ELSE @]

\* The return of pollKoboldAPI runs the closes its iterations deferred.
ReturnFromPoll(b) == [b EXCEPT !.pollClosed = b.pollOpened]

\* The return of callKoboldAPI runs the close deferred at line 247.
ReturnFromCall(b) == [b EXCEPT !.submit = IF @ = "open" THEN "closed" ELSE @]

\* Fault variant: the first status GET issued without the delay.
LoopTopAtGet == "get"

\* The top of the loop of pollKoboldAPI: its first statement is the sleep
\* (lines 273-274).
LoopTop == "sleep"

Init ==
    /\ pc = [r \in Reqs |-> "absent"]
    /\ inbound = [r \in Reqs |-> None]
    /\ apiKey = [r \in Reqs |-> None]
    /\ koboldReq = [r \in Reqs |-> None]
    /\ post = [r \in Reqs |-> <<>>]
    /\ handle = [r \in Reqs |-> None]
    /\ sleeps = [r \in Reqs |-> 0]
    /\ gets = [r \in Reqs |-> <<>>]
    /\ last = [r \in Reqs |-> None]
    /\ result = [r \in Reqs |-> None]
    /\ response = [r \in Reqs |-> None]
    /\ bodies = [r \in Reqs |-> NoBodies]
    /\ jobs = <<>>

\* The common head of the two handlers: the key from the header, the decode,
\* the 400 on a decode error, else the conversion to the job spec.
HandlerHead(r, req, converted) ==
    /\ pc[r] = "absent"
    /\ inbound' = [inbound EXCEPT ![r] = Opt(req)]
    /\ apiKey' = [apiKey EXCEPT ![r] = Opt(ExtractKey(req.auth))]
    /\ IF DecodeError(req.body) # None
       THEN /\ response' = [response EXCEPT
                   ![r] = Opt(HttpError(DecodeError(req.body)[1], StatusBadRequest))]
            /\ pc' = [pc EXCEPT ![r] = "done"]
            /\ UNCHANGED koboldReq
       ELSE /\ koboldReq' = [koboldReq EXCEPT ![r] = Opt(converted)]
            /\ pc' = [pc EXCEPT ![r] = "submit"]
            /\ UNCHANGED response
    /\ UNCHANGED <<post, handle, sleeps, gets, last, result, bodies, jobs>>

\* chatCompletionHandler up to its call of callKoboldAPI.
chatCompletionHandler(r, req) ==
    /\ req.endpoint = ChatPath
    /\ HandlerHead(r, req, convertOpenAIChatRequestToKobold(req.body.val))

\* completionHandler up to its call of callKoboldAPI.
completionHandler(r, req) ==
    /\ req.endpoint = CompletionPath
    /\ HandlerHead(r, req, convertOpenAICompletionRequestToKobold(req.body.val))

\* ---------------------------------------------------------- downstream client
\* Fault variant: client.Do's error dropped.
SubmitErrorIgnoreTransport(reply) ==
    IF reply.kind = "http" /\ reply.body = "malformed" THEN Opt(reply.err) ELSE None

\* err of client.Do (line 241) or of decoding the answer's body (line 251).
\* The answer's HTTP status is never read.
SubmitError(reply) ==
    IF reply.kind = "transport"
    THEN Opt(reply.err)
    ELSE IF reply.body = "malformed" THEN Opt(reply.err) ELSE None

\* jsonResponse.ID after the decode of line 250: the id of the job the horde
\* created for this POST, or the empty string when the body names none.
AsyncID(reply, newJob) == IF reply.body = "job" THEN <<newJob>> ELSE <<>>

FailedCall(err) == [ok |-> FALSE, err |-> err, status |-> ZeroStatus]
ReturnedStatus(st) == [ok |-> TRUE, err |-> "", status |-> st]

\* callKoboldAPI up to its call of pollKoboldAPI (lines 217-259), and, when it
\* returns an error, the handler's 500 (lines 146-150, 177-181).
callKoboldAPI(r, reply) ==
    /\ pc[r] = "submit"
    /\ post' = [post EXCEPT ![r] = Append(@, [apikey |-> apiKey[r][1],
                                              body |-> koboldReq[r][1],
                                              reply |-> reply])]
    /\ jobs' = IF reply.kind = "http" /\ reply.body = "job"
               THEN Append(jobs, [owner |-> r, status |-> None])
               ELSE jobs
    /\ IF SubmitError(reply) # None
       THEN /\ result' = [result EXCEPT ![r] = Opt(FailedCall(SubmitError(reply)[1]))]
            /\ response' = [response EXCEPT
                   ![r] = Opt(HttpError(SubmitError(reply)[1],
                                        StatusInternalServerError))]
            /\ pc' = [pc EXCEPT ![r] = "done"]
            /\ bodies' = [bodies EXCEPT
                   ![r] = IF reply.kind = "transport"
                          THEN @
                          ELSE ReturnFromCall(OpenSubmitBody(@))]
            /\ UNCHANGED handle
       ELSE /\ handle' = [handle EXCEPT ![r] = Opt(AsyncID(reply, Len(jobs) + 1))]
            /\ pc' = [pc EXCEPT ![r] = LoopTop]
            /\ bodies' = [bodies EXCEPT ![r] = OpenSubmitBody(@)]
            /\ UNCHANGED <<result, response>>
    /\ UNCHANGED <<inbound, apiKey, koboldReq, sleeps, gets, last>>

\* time.Sleep(2 * time.Second), line 274.  The loop itself has no cap; the
\* model stops issuing polls after MaxPolls of them.
pollSleep(r) ==
    /\ pc[r] = "sleep"
    /\ Len(gets[r]) < MaxPolls
    /\ sleeps' = [sleeps EXCEPT ![r] = @ + 1]
    /\ pc' = [pc EXCEPT ![r] = "get"]
    /\ UNCHANGED <<inbound, apiKey, koboldReq, post, handle, gets, last,
                   result, response, bodies, jobs>>

\* Fault variant: the id kept in one place shared by all requests.
statusEndpointOfLatestJob(r) == IF Len(jobs) = 0 THEN <<>> ELSE <<Len(jobs)>>

\* statusEndpoint := koboldStatusURL + id, line 271: the id it ends with.
statusEndpoint(r) == handle[r][1]

\* Fault variant: a decode error leaves the zero status and the loop goes on.
PollErrorRetried(reply) ==
    IF reply.kind = "transport" THEN Opt(reply.err) ELSE None

\* err of http.Get (line 277) or of decoding the answer's body (line 287).
PollError(reply) ==
    IF reply.kind = "transport"
    THEN Opt(reply.err)
    ELSE IF ~reply.ok THEN Opt(reply.err) ELSE None

\* Fault variants: the loop left on any status, also on a faulted one, or
\* never.
LoopExitAtOnce(jsonResponse) == TRUE
LoopExitNever(jsonResponse) == FALSE
LoopExitOnFault(jsonResponse) == jsonResponse.Done \/ jsonResponse.Faulted

\* if jsonResponse.Done, line 294.
LoopExit(jsonResponse) == jsonResponse.Done

\* How the history names an answer to a status GET.
ReplyKind(reply) ==
    IF reply.kind = "transport" THEN "transport"
    ELSE IF ~reply.ok THEN "decode"
    ELSE IF reply.status.Done THEN "done" ELSE "notdone"

\* The handler after callKoboldAPI returned a status (lines 152-157, 183-185).
\* A panic of the conversion unwinds the handler: net/http recovers it and
\* closes the connection, and no response is written.
HandlerTail(r, koboldResp) ==
    IF IndexPanics(koboldResp)
    THEN /\ pc' = [pc EXCEPT ![r] = "panicked"]
         /\ UNCHANGED response
    ELSE /\ response' = [response EXCEPT ![r] = Opt(HttpOK(
                IF inbound[r][1].endpoint = ChatPath
                THEN convertKoboldResponseToOpenAIChatResponse(koboldResp)
                ELSE convertKoboldResponseToOpenAICompletionResponse(koboldResp)))]
         /\ pc' = [pc EXCEPT ![r] = "done"]

\* One status GET of pollKoboldAPI and what follows it without blocking
\* (lines 276-296): on an error the return through callKoboldAPI (261-265) and
\* the handler's 500; on done the return (295, 267) and the handler's tail;
\* otherwise the next iteration.
pollKoboldAPI(r, reply) ==
    /\ pc[r] = "get"
    /\ gets' = [gets EXCEPT ![r] = Append(@, [target |-> statusEndpoint(r),
                                              kind |-> ReplyKind(reply),
                                              faulted |-> reply.status.Faulted])]
    /\ last' = [last EXCEPT ![r] = Opt(reply)]
    /\ jobs' = IF /\ statusEndpoint(r) # <<>>
                  /\ reply.kind = "http"
                  /\ reply.ok
               THEN [jobs EXCEPT ![statusEndpoint(r)[1]].status = Opt(reply.status)]
               ELSE jobs
    /\ IF PollError(reply) # None
       THEN /\ result' = [result EXCEPT ![r] = Opt(FailedCall(PollError(reply)[1]))]
            /\ response' = [response EXCEPT
                   ![r] = Opt(HttpError(PollError(reply)[1],
                                        StatusInternalServerError))]
            /\ pc' = [pc EXCEPT ![r] = "done"]
            /\ bodies' = [bodies EXCEPT
                   ![r] = ReturnFromCall(ReturnFromPoll(
                              IF reply.kind = "transport"
                              THEN @
                              ELSE OpenPollBody(@)))]
       ELSE IF LoopExit(reply.status)
       THEN /\ result' = [result EXCEPT ![r] = Opt(ReturnedStatus(reply.status))]
            /\ bodies' = [bodies EXCEPT
                   ![r] = ReturnFromCall(ReturnFromPoll(OpenPollBody(@)))]
            /\ HandlerTail(r, reply.status)
       ELSE /\ pc' = [pc EXCEPT ![r] = LoopTop]
            /\ bodies' = [bodies EXCEPT ![r] = OpenPollBody(@)]
            /\ UNCHANGED <<result, response>>
    /\ UNCHANGED <<inbound, apiKey, koboldReq, post, handle, sleeps>>

\* One request, every input and every answer of the horde.
Next ==
    \E r \in Single :
        \/ \E req \in Inbound : chatCompletionHandler(r, req)
        \/ \E req \in Inbound : completionHandler(r, req)
        \/ \E reply \in SubmitReplies : callKoboldAPI(r, reply)
        \/ pollSleep(r)
        \/ \E reply \in PollReplies : pollKoboldAPI(r, reply)

Spec == Init /\ [][Next]_vars

\* NReq overlapping requests, their steps interleaved in every order.  A
\* network call and the handler code up to the next one are one step: what a
\* goroutine holds between two calls is local to it.
NextConc ==
    \E r \in Reqs :
        \/ \E req \in InboundConc : chatCompletionHandler(r, req)
        \/ \E req \in InboundConc : completionHandler(r, req)
        \/ \E reply \in SubmitRepliesConc : callKoboldAPI(r, reply)
        \/ pollSleep(r)
        \/ \E reply \in PollRepliesConc : pollKoboldAPI(r, reply)

SpecConc == Init /\ [][NextConc]_vars

\* A horde that reports completion in the end: by the last poll the model
\* issues, its answer is no longer a not-done status.
PollRepliesLive(r) ==
    IF Len(gets[r]) + 1 >= MaxPolls
    THEN {x \in PollReplies : ~(x.ok /\ ~x.status.Done)}
    ELSE PollReplies

\* One request against that horde.
NextLive ==
    \E r \in Single :
        \/ \E req \in InboundConc : chatCompletionHandler(r, req)
        \/ \E req \in InboundConc : completionHandler(r, req)
        \/ \E reply \in SubmitReplies : callKoboldAPI(r, reply)
        \/ pollSleep(r)
        \/ \E reply \in PollRepliesLive(r) : pollKoboldAPI(r, reply)

\* The goroutine of a request is scheduled: its sleep ends and its status GET
\* returns, with an answer or an error.
SpecLive ==
    /\ Init
    /\ [][NextLive]_vars
    /\ \A r \in Single :
        /\ WF_vars(pollSleep(r))
        /\ WF_vars(\E reply \in PollRepliesLive(r) : pollKoboldAPI(r, reply))

\* ===================================================================== claims
Polling(r) == pc[r] \in {"sleep", "get"}
NGets(r) == Len(gets[r])
CallReturned(r) == result[r] # None
CallSucceeded(r) == result[r] # None /\ result[r][1].ok

\* C1: the poll loop returns successfully exactly at the first status answer
\* whose done flag is true, returns that answer as its result, and issues no
\* status GET after it: a done answer is always the last GET of its request,
\* it ends the loop with that very status as the result of the call, and no
\* call succeeds on anything but a done answer.
C1_PollReturnsAtFirstDone ==
    \A r \in Reqs :
        /\ \A i \in 1..NGets(r) : gets[r][i].kind = "done" => i = NGets(r)
        /\ (NGets(r) > 0 /\ gets[r][NGets(r)].kind = "done")
               => /\ ~Polling(r)
                  /\ result[r] = Opt(ReturnedStatus(last[r][1].status))
        /\ CallSucceeded(r)
               => /\ NGets(r) > 0
                  /\ gets[r][NGets(r)].kind = "done"
                  /\ last[r][1].status.Done

\* C1 witness: answers done=false then done=true, two GETs, the second status
\* returned.
C1_Witness ==
    \E r \in Reqs :
        /\ NGets(r) = 2
        /\ gets[r][1].kind = "notdone"
        /\ gets[r][2].kind = "done"
        /\ result[r] = Opt(ReturnedStatus(last[r][1].status))
        /\ ~Polling(r)

Answered(r, code) == response[r] # None /\ response[r][1].code = code
SubmitReply(r) == post[r][1].reply

\* C2: when the job reports done=true with zero generations, the conversion
\* of either endpoint fails with an error instead of crashing, and the handler
\* answers the request with status 500.
C2_EmptyResultAnswers500 ==
    \A r \in Reqs :
        (CallSucceeded(r) /\ Len(result[r][1].status.Generations) = 0)
            => /\ pc[r] = "done"
               /\ Answered(r, StatusInternalServerError)

\* C3: a submit POST answered with a non-success HTTP status or a malformed
\* body makes callKoboldAPI return an error: no job handle is extracted, no
\* status GET is issued, and the handler answers 500.
C3_BadSubmitIsSubmitError ==
    \A r \in Reqs :
        (/\ post[r] # <<>>
         /\ SubmitReply(r).kind = "http"
         /\ (SubmitReply(r).code \notin 200..299 \/ SubmitReply(r).body = "malformed"))
            => /\ handle[r] = None
               /\ sleeps[r] = 0
               /\ gets[r] = <<>>
               /\ CallReturned(r) /\ ~result[r][1].ok
               /\ Answered(r, StatusInternalServerError)

\* C4: if the submit POST fails at the transport level, no GET to the status
\* endpoint is ever issued for that request, and the request ends with a 500
\* response.
C4_SubmitTransportFailure ==
    \A r \in Reqs :
        (post[r] # <<>> /\ SubmitReply(r).kind = "transport")
            => /\ gets[r] = <<>>
               /\ handle[r] = None
               /\ pc[r] = "done"
               /\ response[r] = Opt(HttpError(SubmitReply(r).err,
                                              StatusInternalServerError))

\* C4 witness: a request whose submit POST failed at the transport level.
C4_Witness ==
    \E r \in Reqs :
        /\ post[r] # <<>>
        /\ SubmitReply(r).kind = "transport"
        /\ Answered(r, StatusInternalServerError)

\* C5: on either endpoint, a request whose JSON body cannot be decoded is
\* answered with status 400 carrying the decode error text, and neither a
\* submit POST nor a status GET is issued for it.
C5_MalformedBodyIs400 ==
    \A r \in Reqs :
        (inbound[r] # None /\ ~inbound[r][1].body.ok)
            => /\ response[r] = Opt(HttpError(inbound[r][1].body.err,
                                              StatusBadRequest))
               /\ pc[r] = "done"
               /\ koboldReq[r] = None
               /\ post[r] = <<>>
               /\ gets[r] = <<>>

\* C5 witness: a POST /v1/completions with an undecodable body, answered 400.
C5_Witness ==
    \E r \in Reqs :
        /\ inbound[r] # None
        /\ ~inbound[r][1].body.ok
        /\ inbound[r][1].endpoint = CompletionPath
        /\ Answered(r, StatusBadRequest)

\* C6: one failure of a status GET (transport failure or undecodable body) at
\* any poll iteration aborts the whole request: it is the request's last GET,
\* the call returns that error with the zero status, not an earlier not-done
\* status, and the handler answers 500 with the error message as body.
C6_PollFailureIsFatal ==
    \A r \in Reqs :
        \A i \in 1..NGets(r) :
            gets[r][i].kind \in {"transport", "decode"}
                => /\ i = NGets(r)
                   /\ pc[r] = "done"
                   /\ result[r] = Opt(FailedCall(last[r][1].err))
                   /\ response[r] = Opt(HttpError(last[r][1].err,
                                                  StatusInternalServerError))

\* C6 witness: a not-done status, then a GET whose body did not decode.
C6_Witness ==
    \E r \in Reqs :
        /\ NGets(r) = 2
        /\ gets[r][1].kind = "notdone"
        /\ gets[r][2].kind = "decode"
        /\ Answered(r, StatusInternalServerError)

\* C7: a status answer with faulted=true and done=false does not end the poll
\* loop: the step that receives it goes on to the next sleep with no result
\* and no response, and for as long as every answer is a (faulted or not)
\* not-done status, the request stays in the loop without a response.
C7_FaultedKeepsPolling ==
    [][\A r \in Reqs :
        /\ (/\ NGets(r)' = NGets(r) + 1
            /\ last'[r][1].kind = "http"
            /\ last'[r][1].ok
            /\ last'[r][1].status.Faulted
            /\ ~last'[r][1].status.Done)
               => /\ pc'[r] = "sleep"
                  /\ result'[r] = None
                  /\ response'[r] = None
        /\ (/\ handle'[r] # None
            /\ \A i \in 1..NGets(r)' : gets'[r][i].kind = "notdone")
               => /\ pc'[r] \in {"sleep", "get"}
                  /\ response'[r] = None]_vars

\* C7 witness: two faulted not-done answers in a row, and the request is still
\* in the loop with no response.
C7_Witness ==
    \E r \in Reqs :
        /\ NGets(r) = 2
        /\ gets[r][1].kind = "notdone" /\ gets[r][1].faulted
        /\ gets[r][2].kind = "notdone" /\ gets[r][2].faulted
        /\ pc[r] = "sleep"
        /\ response[r] = None

JobOf(r) == jobs[handle[r][1][1]]
SuccessfulSubmits ==
    {r \in Reqs : post[r] # <<>> /\ SubmitReply(r).kind = "http"
                  /\ SubmitReply(r).body = "job"}

\* C8: for overlapping requests in any interleaving, each request that gets
\* past the decode issues exactly one submit POST, carrying its own job spec
\* and key (no request ever issues a second one, and the horde holds one job
\* per accepted POST, also for equal prompts); every status GET of a request
\* targets the handle its own submit returned; and a success response carries
\* the text of the status of the request's own job.
C8_RequestsAreIndependent ==
    /\ Len(jobs) = Cardinality(SuccessfulSubmits)
    /\ \A r \in Reqs :
        /\ Len(post[r]) <= 1
        /\ (koboldReq[r] # None /\ pc[r] # "submit") => Len(post[r]) = 1
        /\ post[r] # <<>>
               => /\ koboldReq[r] # None
                  /\ post[r][1].body = koboldReq[r][1]
                  /\ post[r][1].apikey = apiKey[r][1]
        /\ handle[r] # None
               => /\ handle[r][1] # <<>>
                  /\ handle[r][1][1] \in 1..Len(jobs)
                  /\ JobOf(r).owner = r
        /\ gets[r] # <<>> => handle[r] # None
        /\ \A i \in 1..NGets(r) : gets[r][i].target = handle[r][1]
        /\ Answered(r, StatusOK)
               => /\ JobOf(r).status # None
                  /\ result[r] = Opt(ReturnedStatus(JobOf(r).status[1]))
                  /\ ChoiceText(response[r][1].entity[1])
                         = JobOf(r).status[1].Generations[1].Text

\* C8 witness: two requests with the same prompt, each with a job of its own,
\* polled twice each, answered with the different texts of their two jobs.
C8_Witness ==
    \E r, q \in Reqs :
        /\ r # q
        /\ koboldReq[r] # None /\ koboldReq[q] # None
        /\ koboldReq[r][1].Prompt = koboldReq[q][1].Prompt
        /\ Answered(r, StatusOK) /\ Answered(q, StatusOK)
        /\ NGets(r) = 2 /\ NGets(q) = 2
        /\ handle[r] # handle[q]
        /\ ChoiceText(response[r][1].entity[1]) # ChoiceText(response[q][1].entity[1])

\* Where the i-th message's line starts in the prompt: the lengths of the
\* lines before it.
RECURSIVE LineStart(_, _)
LineStart(messages, i) ==
    IF i <= 1
    THEN 0
    ELSE LineStart(messages, i - 1) + Len(messages[i - 1].Role) + 2
             + Len(messages[i - 1].Content) + 1

\* C9: for every sequence of chat messages, the empty one included, Chat->Job
\* gives a prompt that is the lines role + ": " + content + newline of the
\* messages, one after the other in input order and nothing else; the empty
\* sequence gives the empty prompt, and no error.
C9_ChatPromptIsConcatenation ==
    \A r \in Reqs :
        (/\ inbound[r] # None
         /\ inbound[r][1].endpoint = ChatPath
         /\ inbound[r][1].body.ok)
            => /\ koboldReq[r] # None
               /\ pc[r] # "absent"
               /\ ~Answered(r, StatusBadRequest)
               /\ LET messages == inbound[r][1].body.val.Messages
                      prompt == koboldReq[r][1].Prompt
                  IN  /\ Len(prompt) = LineStart(messages, Len(messages) + 1)
                      /\ messages = <<>> => prompt = <<>>
                      /\ \A i \in 1..Len(messages) :
                            SubSeq(prompt, LineStart(messages, i) + 1,
                                   LineStart(messages, i + 1))
                                = messages[i].Role \o <<":", " ">>
                                  \o messages[i].Content \o <<"\n">>
                      /\ post[r] # <<>> => post[r][1].body.Prompt = prompt

\* C9 witness: two different messages, converted and submitted.
C9_Witness ==
    \E r \in Reqs :
        /\ inbound[r] # None
        /\ inbound[r][1].endpoint = ChatPath
        /\ inbound[r][1].body.ok
        /\ Len(inbound[r][1].body.val.Messages) = 2
        /\ inbound[r][1].body.val.Messages[1].Role
               # inbound[r][1].body.val.Messages[2].Role
        /\ post[r] # <<>>

\* C10: for every completion request, Completion->Job gives a job spec whose
\* prompt is the inbound prompt, whose max-output-length is the inbound
\* max_tokens, whose max-context-length is 1024 and whose acceptable models
\* are exactly the one requested model.
C10_CompletionJobSpec ==
    \A r \in Reqs :
        (/\ inbound[r] # None
         /\ inbound[r][1].endpoint = CompletionPath
         /\ inbound[r][1].body.ok)
            => /\ koboldReq[r] # None
               /\ koboldReq[r][1].Prompt = inbound[r][1].body.val.Prompt
               /\ koboldReq[r][1].Params.MaxLength
                      = inbound[r][1].body.val.MaxTokens
               /\ koboldReq[r][1].Params.MaxContextLength = 1024
               /\ koboldReq[r][1].Models = <<inbound[r][1].body.val.Model>>
               /\ post[r] # <<>> => post[r][1].body = koboldReq[r][1]

\* C10 witness: prompt "Hi" with max_tokens 50, converted and submitted.
C10_Witness ==
    \E r \in Reqs :
        /\ inbound[r] # None
        /\ inbound[r][1].endpoint = CompletionPath
        /\ inbound[r][1].body.ok
        /\ inbound[r][1].body.val.Prompt = <<"H", "i">>
        /\ inbound[r][1].body.val.MaxTokens = 50
        /\ post[r] # <<>>

ChatEndpoint(r) == inbound[r] # None /\ inbound[r][1].endpoint = ChatPath
CompletionEndpoint(r) ==
    inbound[r] # None /\ inbound[r][1].endpoint = CompletionPath
Entity(r) == response[r][1].entity[1]
CompletedWithText == {st \in Statuses : st.Done /\ Len(st.Generations) >= 1}

\* C11: for every completed status with at least one generation, Job->Chat
\* and Job->Completion give exactly one choice, whose text/content is the
\* text of the first generation and whose finish reason is "stop"; statuses
\* that agree on the first generation give the same choice, whatever their
\* later generations.
C11_FirstGenerationOnly ==
    /\ \A r \in Reqs :
        Answered(r, StatusOK)
            => LET first == result[r][1].status.Generations[1].Text
               IN  /\ Len(result[r][1].status.Generations) >= 1
                   /\ Len(Entity(r).Choices) = 1
                   /\ Entity(r).Choices[1].FinishReason = "stop"
                   /\ ChatEndpoint(r)
                          => Entity(r).Choices[1].Message.Content = first
                   /\ CompletionEndpoint(r)
                          => Entity(r).Choices[1].Text = first
    /\ \A s1, s2 \in CompletedWithText :
        s1.Generations[1] = s2.Generations[1]
            => /\ convertKoboldResponseToOpenAIChatResponse(s1).Choices
                      = convertKoboldResponseToOpenAIChatResponse(s2).Choices
               /\ convertKoboldResponseToOpenAICompletionResponse(s1).Choices
                      = convertKoboldResponseToOpenAICompletionResponse(s2).Choices

\* C11 witness: a chat request answered from a status with two generations of
\* different texts.
C11_Witness ==
    \E r \in Reqs :
        /\ Answered(r, StatusOK)
        /\ ChatEndpoint(r)
        /\ Len(result[r][1].status.Generations) = 2
        /\ result[r][1].status.Generations[1] # result[r][1].status.Generations[2]
        /\ Entity(r).Choices[1].Message.Content
               = result[r][1].status.Generations[1].Text


HasBearerPrefix(auth) ==
    /\ Len(auth) >= Len(BearerPrefix)
    /\ \A i \in 1..Len(BearerPrefix) : auth[i] = BearerPrefix[i]

\* C12: on both endpoints the key sent in the apikey header of the submit POST
\* is the placeholder "0000000000" when the inbound request has no
\* Authorization header, and otherwise the Authorization value with a leading
\* "Bearer " removed: a value without that prefix is forwarded as it is.
C12_ForwardedKey ==
    \A r \in Reqs :
        post[r] # <<>>
            => LET auth == inbound[r][1].auth
                   key == post[r][1].apikey
               IN  /\ auth = <<>>
                          => key = <<"0", "0", "0", "0", "0", "0", "0", "0", "0", "0">>
                   /\ (auth # <<>> /\ HasBearerPrefix(auth))
                          => BearerPrefix \o key = auth
                   /\ (auth # <<>> /\ ~HasBearerPrefix(auth)) => key = auth

\* C12 witness: "Bearer k1" on /v1/completions, submitted with the key "k1".
C12_Witness ==
    \E r \in Reqs :
        /\ post[r] # <<>>
        /\ CompletionEndpoint(r)
        /\ inbound[r][1].auth = BearerPrefix \o UserKey
        /\ post[r][1].apikey = UserKey

JobUsage(r) == Entity(r).Usage


\* C13: for every successful POST /v1/completions, whatever model was
\* requested, the response has object "text.completion", model
\* "davinci-codex", a single choice with index 0, and usage counters
\* prompt_tokens, completion_tokens and total_tokens all 0.
C13_CompletionResponseShape ==
    \A r \in Reqs :
        (CompletionEndpoint(r) /\ Answered(r, StatusOK))
            => /\ Entity(r).Object = "text.completion"
               /\ Entity(r).Model = "davinci-codex"
               /\ Len(Entity(r).Choices) = 1
               /\ Entity(r).Choices[1].Index = 0
               /\ JobUsage(r).PromptTokens = 0
               /\ JobUsage(r).CompletionTokens = 0
               /\ JobUsage(r).TotalTokens = 0

\* C13 witness: a completion request for the model "gpt", answered 200 with a
\* non-empty text.
C13_Witness ==
    \E r \in Reqs :
        /\ CompletionEndpoint(r)
        /\ Answered(r, StatusOK)
        /\ inbound[r][1].body.val.Model = <<"g", "p", "t">>
        /\ Len(Entity(r).Choices[1].Text) > 0


\* The success response of r rests on a done status that a GET to r's own
\* handle returned.
AnsweredFromDoneStatus(r) ==
    /\ handle[r] # None
    /\ NGets(r) > 0
    /\ gets[r][NGets(r)].kind = "done"
    /\ gets[r][NGets(r)].target = handle[r][1]
    /\ last[r][1].status.Done
    /\ result[r] = Opt(ReturnedStatus(last[r][1].status))

\* C14: a success (200) response is written for a request only after its
\* submit POST succeeded and a status GET for its job handle returned
\* done=true; no success response is built from a not-done status; and a
\* request that received an error response (400 or 500) never also receives a
\* success body.
C14_SuccessOnlyAfterSubmitAndDone ==
    [][\A r \in Reqs :
        /\ Answered(r, StatusOK)'
               => /\ post'[r] # <<>>
                  /\ SubmitReply(r)'.kind = "http"
                  /\ SubmitReply(r)'.code \in 200..299
                  /\ SubmitReply(r)'.body # "malformed"
                  /\ AnsweredFromDoneStatus(r)'
        /\ (response[r] # None /\ response[r][1].code # StatusOK)
               => response'[r] = response[r]]_vars


PollFailed(r) ==
    NGets(r) > 0 /\ gets[r][NGets(r)].kind \in {"transport", "decode"}
DoneWithoutGenerations(r) ==
    CallSucceeded(r) /\ Len(result[r][1].status.Generations) = 0
OnlyNotDoneSoFar(r) ==
    handle[r] # None /\ \A i \in 1..NGets(r) : gets[r][i].kind = "notdone"

\* C15: under fairness of the poll step, once the submit has succeeded and
\* with a horde that reports done=true in the end, the request receives its
\* response, unless a status GET fails or the done status has no generation;
\* and the client gives up on no number of polls: after any number of
\* not-done answers it is still in the loop.
C15_EventuallyAnswered ==
    /\ \A r \in Reqs :
        (handle[r] # None)
            ~> (Answered(r, StatusOK) \/ PollFailed(r) \/ DoneWithoutGenerations(r))
    /\ [](\A r \in Reqs : OnlyNotDoneSoFar(r) => Polling(r))

\* C15 witness: a response received at the last poll the horde allowed for,
\* after not-done answers to all the polls before it.
C15_Witness ==
    \E r \in Reqs :
        /\ Answered(r, StatusOK)
        /\ NGets(r) = MaxPolls
        /\ \A i \in 1..(NGets(r) - 1) : gets[r][i].kind = "notdone"


\* C16: every status GET, the first one after the submit included, is
\* immediately preceded by one delay step of its own: the number of sleeps of
\* a request equals the number of status GETs it has issued (those answered,
\* and the one in flight at "get", issued as its sleep ended), so no GET
\* follows the submit or another GET without a sleep in between.
C16_DelayBeforeEveryGet ==
    \A r \in Reqs :
        /\ sleeps[r] = NGets(r) + (IF pc[r] = "get" THEN 1 ELSE 0)
        /\ pc[r] = "get" => sleeps[r] > NGets(r)
        /\ pc[r] \in {"done", "panicked"} => sleeps[r] = NGets(r)

\* C16 witness: a request that ended after two GETs and two sleeps.
C16_Witness ==
    \E r \in Reqs :
        /\ pc[r] = "done"
        /\ NGets(r) = 2
        /\ sleeps[r] = 2


\* C17: for every completed status with at least one generation, Job->Chat
\* sets prompt_tokens and completion_tokens both to the length of the first
\* generation's text and total_tokens to twice that length, whatever the
\* inbound chat messages were.
C17_ChatUsageIsTextLength ==
    \A r \in Reqs :
        (ChatEndpoint(r) /\ Answered(r, StatusOK))
            => LET n == Len(result[r][1].status.Generations[1].Text)
               IN  /\ JobUsage(r).PromptTokens = n
                   /\ JobUsage(r).CompletionTokens = n
                   /\ JobUsage(r).TotalTokens = 2 * n

\* C17 witness: a prompt of another length than the text "hi", which is
\* counted 2, 2 and 4.
C17_Witness ==
    \E r \in Reqs :
        /\ ChatEndpoint(r)
        /\ Answered(r, StatusOK)
        /\ Len(koboldReq[r][1].Prompt) > 2
        /\ result[r][1].status.Generations[1].Text = <<"h", "i">>
        /\ JobUsage(r) = [PromptTokens |-> 2, CompletionTokens |-> 2,
                          TotalTokens |-> 4]


\* The status GETs of r that were answered over HTTP, each of which opened a
\* response body.
SuccessfulGets(r) ==
    Cardinality({i \in 1..NGets(r) : gets[r][i].kind # "transport"})
OpenPollBodies(r) == bodies[r].pollOpened - bodies[r].pollClosed

\* C18: once callKoboldAPI has returned, on any exit path, the submit
\* response body and every poll response body the request opened are closed;
\* while the poll loop runs none of them is closed, so the poll bodies open
\* at once number the successful status GETs so far, beside the submit body.
C18_BodiesClosedAtReturn ==
    \A r \in Reqs :
        /\ bodies[r].pollOpened = SuccessfulGets(r)
        /\ CallReturned(r) => /\ bodies[r].submit # "open"
                              /\ OpenPollBodies(r) = 0
        /\ Polling(r) => /\ bodies[r].submit = "open"
                         /\ bodies[r].pollClosed = 0
                         /\ OpenPollBodies(r) = NGets(r)
        /\ ~CallReturned(r) /\ ~Polling(r) => bodies[r] = NoBodies

\* C18 witness: two poll bodies opened, the second one undecodable, and both
\* closed with the submit body at the return.
C18_Witness ==
    \E r \in Reqs :
        /\ CallReturned(r)
        /\ NGets(r) = 2
        /\ gets[r][2].kind = "decode"
        /\ bodies[r] = [submit |-> "closed", pollOpened |-> 2, pollClosed |-> 2]

====
